---------------------------- MODULE Spec2Model ----------------------------
(***************************************************************************)
(* A model of usbrip's lib/core/common.py: the DefaultOrderedDict          *)
(* container, the USBRipError exception and the print_* message functions. *)
(*                                                                         *)
(* Python objects are modelled by records.  An exception is an outcome     *)
(* record whose exc field names the exception type ("None" when the call   *)
(* returned normally).                                                     *)
(***************************************************************************)
EXTENDS Naturals, Sequences, FiniteSets, TLC

VARIABLES
    C,          \* the DefaultOrderedDict under test
    pre,        \* C as it was before the last container operation
    last,       \* the last container operation: [op, key, arg]
    ret,        \* its outcome: [exc, value]
    lastCalls,  \* number of calls of default_factory the last operation made
    calls,      \* number of calls of default_factory so far
    D,          \* the container the last copy / rebuild returned
    firstSeen,  \* history: keys of C in the order they were first inserted
    cfg,        \* lib.core.config: [QUIET, DEBUG, ISATTY]
    call,       \* the last print_* call: [fn, message, errcode, initial_error]
    out,        \* the writes of the last print_* call, in order
    err         \* the last USBRipError: [made, message, given, errors]

vars == <<C, pre, last, ret, lastCalls, calls, D, firstSeen, cfg, call, out, err>>

containerVars == <<C, pre, last, ret, lastCalls, calls, D, firstSeen>>
reporterVars  == <<cfg, call, out>>
errorVars     == <<err>>

---------------------------------------------------------------------------
(* Bounds *)

MaxKey == 2         \* keys are 1..MaxKey
MaxVal == 2         \* values a caller stores are 1..MaxVal
MaxErrcode == 2     \* error codes are 0..MaxErrcode

Keys == 1..MaxKey

None == "None"
Factories == {"list", "dict"}   \* zero-argument callables

\* A Python value stored in the container: by is who made it (the caller or
\* the factory that was called), id tells two objects of one maker apart.
NoValue == [by |-> None, id |-> 0]
CallerValues == [by : {"caller"}, id : 1..MaxVal]

---------------------------------------------------------------------------
(* OrderedDict (the base class) *)

KeySet(d) == {d.order[i] : i \in 1..Len(d.order)}

NewDict(f) == [order |-> <<>>, val |-> <<>>, _default_factory |-> f]

\* OrderedDict.__setitem__: a new key goes to the end, an existing key keeps
\* its place and gets the new value.
OrderedDict__setitem__(d, key, value) ==
    [d EXCEPT !.order = IF key \in KeySet(d) THEN d.order ELSE Append(d.order, key),
              !.val = [k \in KeySet(d) \cup {key} |->
                          IF k = key THEN value ELSE d.val[k]]]

\* iter(d): the keys in order
Iterate(d) == d.order

\* d.items(): the (key, value) pairs in order
Items(d) == [i \in 1..Len(d.order) |-> <<d.order[i], d.val[d.order[i]]>>]

RECURSIVE SetAll(_, _)
SetAll(d, items) ==
    IF items = <<>> THEN d
    ELSE SetAll(OrderedDict__setitem__(d, Head(items)[1], Head(items)[2]), Tail(items))

---------------------------------------------------------------------------
(* DefaultOrderedDict *)

\* the outcome of a call: the container afterwards, the exception raised
\* (None if none), the value returned, the number of factory calls so far
Outcome(d, exc, value, n) == [d |-> d, exc |-> exc, value |-> value, n |-> n]

\* self._default_factory(): the n-th call returns a fresh object
CallFactory(f, n) == [by |-> f, id |-> n + 1]

__missing__NoInsert(d, key, n) ==
    IF d._default_factory = None
    THEN Outcome(d, "KeyError", NoValue, n)
    ELSE Outcome(d, None, CallFactory(d._default_factory, n), n + 1)

__missing__InsertNone(d, key, n) ==
    IF d._default_factory = None
    THEN Outcome(OrderedDict__setitem__(d, key, NoValue), "KeyError", NoValue, n)
    ELSE LET value == CallFactory(d._default_factory, n)
         IN  Outcome(OrderedDict__setitem__(d, key, value), None, value, n + 1)

__missing__(d, key, n) ==
    IF d._default_factory = None
    THEN Outcome(d, "KeyError", NoValue, n)
    ELSE LET value == CallFactory(d._default_factory, n)
         IN  Outcome(OrderedDict__setitem__(d, key, value), None, value, n + 1)

\* OrderedDict.__getitem__(self, key) is dict.__getitem__: on a subclass of
\* dict that defines __missing__ an absent key calls self.__missing__(key).
OrderedDict__getitem__(d, key, n) ==
    IF key \in KeySet(d)
    THEN Outcome(d, None, d.val[key], n)
    ELSE __missing__(d, key, n)

__getitem__MoveToEnd(d, key, n) ==
    LET r == OrderedDict__getitem__(d, key, n)
    IN  IF r.exc = "KeyError" THEN __missing__(r.d, key, r.n)
        ELSE [r EXCEPT !.d.order = Append(SelectSeq(r.d.order, LAMBDA k : k # key), key)]

__getitem__(d, key, n) ==
    LET r == OrderedDict__getitem__(d, key, n)
    IN  IF r.exc = "KeyError" THEN __missing__(r.d, key, r.n) ELSE r

---------------------------------------------------------------------------
(* Construction, copies and __reduce__ *)

\* positional arguments of a call
ArgCallable(f) == [kind |-> "callable", f |-> f, items |-> <<>>]
ArgNone        == [kind |-> None, f |-> None, items |-> <<>>]
ArgItems(its)  == [kind |-> "items", f |-> None, items |-> its]
ArgOf(f)       == IF f = None THEN ArgNone ELSE ArgCallable(f)

NoDict == [exc |-> "NoDict", d |-> NewDict(None)]
Built(d) == [exc |-> None, d |-> d]
Raised(e) == [exc |-> e, d |-> NewDict(None)]

\* OrderedDict.__init__(self, *args): at most one positional argument, a
\* mapping or an iterable of pairs
OrderedDict__init__(args) ==
    IF Len(args) > 1 THEN Raised("TypeError")
    ELSE IF Len(args) = 0 THEN Built(NewDict(None))
    ELSE IF args[1].kind # "items" THEN Raised("TypeError")
    ELSE Built(SetAll(NewDict(None), args[1].items))

\* DefaultOrderedDict.__init__(self, *args, default_factory=None, **kwargs)
DefaultOrderedDict__init__(args, default_factory) ==
    IF default_factory # None /\ default_factory \notin Factories
    THEN Raised("TypeError")
    ELSE LET r == OrderedDict__init__(args)
         IN  IF r.exc # None THEN r
             ELSE Built([r.d EXCEPT !._default_factory = default_factory])

\* type(self)(self._default_factory, self)
__copy__(self) ==
    DefaultOrderedDict__init__(<<ArgOf(self._default_factory), ArgItems(Items(self))>>, None)

copy(self) == __copy__(self)

\* copy.deepcopy(self.items()): a view of the items cannot be deep-copied on
\* interpreters that refuse to pickle it (viewCopyable = FALSE); where it can,
\* the clone holds clones of the values
Clone(v) == [v EXCEPT !.by = IF v.by = None THEN None ELSE "clone"]
copy_deepcopy(items, viewCopyable) ==
    IF viewCopyable
    THEN [exc |-> None, items |-> [i \in 1..Len(items) |-> <<items[i][1], Clone(items[i][2])>>]]
    ELSE [exc |-> "TypeError", items |-> <<>>]

\* type(self)(self._default_factory, copy.deepcopy(self.items()))
__deepcopy__(self, viewCopyable) ==
    LET its == copy_deepcopy(Items(self), viewCopyable)
    IN  IF its.exc # None THEN Raised(its.exc)
        ELSE DefaultOrderedDict__init__(<<ArgOf(self._default_factory), ArgItems(its.items)>>, None)

\* (type(self), args, None, None, self.items())
__reduce__(self) ==
    [args  |-> IF self._default_factory = None THEN <<>>
               ELSE <<ArgCallable(self._default_factory)>>,
     items |-> Items(self)]

\* rebuilding from the reduce value: y = callable(*args), then y[key] = value
\* for each pair of the fifth element
Rebuild(red) ==
    LET y == DefaultOrderedDict__init__(red.args, None)
    IN  IF y.exc # None THEN y ELSE Built(SetAll(y.d, red.items))

---------------------------------------------------------------------------
(* Container operations *)

Op(op, key, arg) == [op |-> op, key |-> key, arg |-> arg]
Ret(exc, value) == [exc |-> exc, value |-> value]

\* the keys first inserted by a step from container a to container b, in order
FirstSeenAfter(seen, a, b) ==
    seen \o SelectSeq(b.order, LAMBDA k : k \notin KeySet(a))

InitReporterIdle ==
    /\ cfg = [QUIET |-> FALSE, DEBUG |-> FALSE, ISATTY |-> FALSE]
    /\ call = [fn |-> "none", message |-> "", errcode |-> 0, initial_error |-> ""]
    /\ out = <<>>

InitErrorIdle ==
    err = [made |-> FALSE, message |-> "", given |-> [isNone |-> TRUE, map |-> <<>>],
           errors |-> <<>>]

\* C = DefaultOrderedDict(default_factory=f), or DefaultOrderedDict()
InitContainer ==
    /\ \E f \in Factories \cup {None} :
          C = DefaultOrderedDict__init__(<<>>, f).d
    /\ pre = C
    /\ last = Op("init", 0, NoValue)
    /\ ret = Ret(None, NoValue)
    /\ lastCalls = 0
    /\ calls = 0
    /\ D = NoDict
    /\ firstSeen = <<>>

\* C[key]
GetItem(key) ==
    LET r == __getitem__(C, key, calls)
    IN  /\ C' = r.d
        /\ pre' = C
        /\ last' = Op("getitem", key, NoValue)
        /\ ret' = Ret(r.exc, r.value)
        /\ lastCalls' = r.n - calls
        /\ calls' = r.n
        /\ firstSeen' = FirstSeenAfter(firstSeen, C, r.d)
        /\ UNCHANGED <<D, cfg, call, out, err>>

\* C[key] = value
SetItem(key, value) ==
    /\ C' = OrderedDict__setitem__(C, key, value)
    /\ pre' = C
    /\ last' = Op("setitem", key, value)
    /\ ret' = Ret(None, NoValue)
    /\ lastCalls' = 0
    /\ firstSeen' = FirstSeenAfter(firstSeen, C, C')
    /\ UNCHANGED <<calls, D, cfg, call, out, err>>

\* the steps that build a second container from C and leave C alone
Builds(op, r) ==
    /\ D' = r
    /\ pre' = C
    /\ last' = Op(op, 0, NoValue)
    /\ ret' = Ret(r.exc, NoValue)
    /\ lastCalls' = 0
    /\ UNCHANGED <<C, calls, firstSeen, cfg, call, out, err>>

\* D = C.copy()
Copy == Builds("copy", copy(C))

\* D = copy.deepcopy(C)
DeepCopy == \E viewCopyable \in BOOLEAN : Builds("deepcopy", __deepcopy__(C, viewCopyable))

\* D = the container rebuilt from C.__reduce__()
RoundTrip == Builds("roundtrip", Rebuild(__reduce__(C)))

NextContainer ==
    \/ \E key \in Keys : GetItem(key)
    \/ \E key \in Keys, value \in CallerValues : SetItem(key, value)
    \/ Copy
    \/ DeepCopy
    \/ RoundTrip

Init == InitContainer /\ InitReporterIdle /\ InitErrorIdle

Spec == Init /\ [][NextContainer]_vars

---------------------------------------------------------------------------
(* USBRipError *)

Messages == {"x", "Permission denied", "Path exists"}
InitialErrors == {"", "disk full"}
Errcodes == (0..MaxErrcode) \cup {5, 7}   \* 5 and 7 are the codes of the documented examples
ErrorKeys == {"errcode", "initial_error", "path"}
Paths == {"/var/log", "/tmp"}

\* the errors argument: None, or a mapping over some of ErrorKeys
NoErrors == [isNone |-> TRUE, map |-> <<>>]
Restrict(f, S) == [k \in S |-> f[k]]
ErrorsArgs ==
    {NoErrors} \cup
    { [isNone |-> FALSE,
       map |-> Restrict([errcode |-> e, initial_error |-> i, path |-> p], S)] :
      e \in Errcodes, i \in InitialErrors, p \in Paths, S \in SUBSET ErrorKeys }

\* Python's truth value of the errors argument
Truthy(errors) == ~errors.isNone /\ DOMAIN errors.map # {}

\* dict.setdefault(key, default)
setdefault(m, key, default) ==
    IF key \in DOMAIN m THEN m
    ELSE [k \in DOMAIN m \cup {key} |-> IF k = key THEN default ELSE m[k]]

\* self.errors after USBRipError(message, errors=errors)
USBRipError__init__Overwrite(message, errors) ==
    LET e0 == IF ~Truthy(errors) THEN <<>> ELSE errors.map
        e1 == [k \in DOMAIN e0 \cup {"errcode"} |-> IF k = "errcode" THEN 0 ELSE e0[k]]
    IN  setdefault(e1, "initial_error", "")

USBRipError__init__(message, errors) ==
    LET e0 == IF ~Truthy(errors) THEN <<>> ELSE errors.map
        e1 == setdefault(e0, "errcode", 0)
    IN  setdefault(e1, "initial_error", "")

\* raise USBRipError(message, errors=errors)
NewUSBRipError(message, errors) ==
    /\ err' = [made |-> TRUE, message |-> message, given |-> errors,
               errors |-> USBRipError__init__(message, errors)]
    /\ UNCHANGED <<containerVars, reporterVars>>

NextError == \E message \in Messages, errors \in ErrorsArgs : NewUSBRipError(message, errors)

InitContainerIdle ==
    /\ C = NewDict(None)
    /\ pre = C
    /\ last = Op("init", 0, NoValue)
    /\ ret = Ret(None, NoValue)
    /\ lastCalls = 0
    /\ calls = 0
    /\ D = NoDict
    /\ firstSeen = <<>>

InitOfError == InitContainerIdle /\ InitReporterIdle /\ InitErrorIdle

SpecError == InitOfError /\ [][NextError]_vars

---------------------------------------------------------------------------
(* Messages: print_info, print_warning, print_critical *)

\* one call of print() or cprint(): the stream, the text and the colour
Write(stream, text, style) == [stream |-> stream, text |-> text, style |-> style]

\* print(text): plain text on sys.stdout
print(text) == Write("stdout", text, "plain")
\* print(text, file=sys.stderr)
print_stderr(text) == Write("stderr", text, "plain")
\* termcolor.cprint(text, ...): coloured text on sys.stdout
cprint(text, style) == Write("stdout", text, style)

print_info(message, c) ==
    IF c.QUIET THEN <<>>
    ELSE IF c.ISATTY
         THEN <<cprint("[INFO] " \o message, "green")>>
         ELSE <<print("[INFO] " \o message)>>

print_warningLoud(message, errcode, initial_error, c) ==
    (IF c.DEBUG
     THEN (IF errcode # 0 THEN <<print("ERRCODE: " \o ToString(errcode))>> ELSE <<>>)
          \o (IF initial_error # "" THEN <<print_stderr(initial_error)>> ELSE <<>>)
     ELSE <<>>)
    \o (IF c.ISATTY
        THEN <<cprint("[WARNING] " \o message, "yellow")>>
        ELSE <<print("[WARNING] " \o message)>>)

print_warning(message, errcode, initial_error, c) ==
    IF c.QUIET THEN <<>>
    ELSE (IF c.DEBUG
          THEN (IF errcode # 0 THEN <<print("ERRCODE: " \o ToString(errcode))>> ELSE <<>>)
               \o (IF initial_error # "" THEN <<print_stderr(initial_error)>> ELSE <<>>)
          ELSE <<>>)
         \o (IF c.ISATTY
             THEN <<cprint("[WARNING] " \o message, "yellow")>>
             ELSE <<print("[WARNING] " \o message)>>)

print_criticalAlwaysDetail(message, errcode, initial_error, c) ==
    (IF errcode # 0 THEN <<print("ERRCODE: " \o ToString(errcode))>> ELSE <<>>)
    \o (IF initial_error # "" THEN <<print_stderr(initial_error)>> ELSE <<>>)
    \o (IF c.ISATTY
        THEN <<cprint("[CRITICAL] " \o message, "white on_red bold")>>
        ELSE <<print("[CRITICAL] " \o message)>>)

print_critical(message, errcode, initial_error, c) ==
    (IF c.DEBUG
     THEN (IF errcode # 0 THEN <<print("ERRCODE: " \o ToString(errcode))>> ELSE <<>>)
          \o (IF initial_error # "" THEN <<print_stderr(initial_error)>> ELSE <<>>)
     ELSE <<>>)
    \o (IF c.ISATTY
        THEN <<cprint("[CRITICAL] " \o message, "white on_red bold")>>
        ELSE <<print("[CRITICAL] " \o message)>>)

Call(fn, message, errcode, initial_error) ==
    [fn |-> fn, message |-> message, errcode |-> errcode, initial_error |-> initial_error]

\* the flags of lib.core.config, set once at start-up
InitReporter ==
    /\ cfg \in [QUIET : BOOLEAN, DEBUG : BOOLEAN, ISATTY : BOOLEAN]
    /\ call = Call("none", "", 0, "")
    /\ out = <<>>

PrintInfo(message) ==
    /\ call' = Call("print_info", message, 0, "")
    /\ out' = print_info(message, cfg)
    /\ UNCHANGED <<cfg, containerVars, errorVars>>

PrintWarning(message, errcode, initial_error) ==
    /\ call' = Call("print_warning", message, errcode, initial_error)
    /\ out' = print_warning(message, errcode, initial_error, cfg)
    /\ UNCHANGED <<cfg, containerVars, errorVars>>

PrintCritical(message, errcode, initial_error) ==
    /\ call' = Call("print_critical", message, errcode, initial_error)
    /\ out' = print_critical(message, errcode, initial_error, cfg)
    /\ UNCHANGED <<cfg, containerVars, errorVars>>

NextReporter ==
    \/ \E message \in Messages : PrintInfo(message)
    \/ \E message \in Messages, errcode \in Errcodes, initial_error \in InitialErrors :
          PrintWarning(message, errcode, initial_error)
    \/ \E message \in Messages, errcode \in Errcodes, initial_error \in InitialErrors :
          PrintCritical(message, errcode, initial_error)

InitOfReporter == InitContainerIdle /\ InitReporter /\ InitErrorIdle

SpecReporter == InitOfReporter /\ [][NextReporter]_vars

---------------------------------------------------------------------------
(* Properties of the container (checked under Spec) *)

AbsentLookup ==
    last.op = "getitem" /\ last.key \notin KeySet(pre)

\* C1: a lookup of an absent key in a container with a factory returns the
\* value of exactly one call of the factory and leaves the key mapped to that
\* value at the end of the order; the pairs that were there keep their values
\* and their order.
DefaultInsertion ==
    (AbsentLookup /\ pre._default_factory # None) =>
        /\ ret.exc = None
        /\ lastCalls = 1
        /\ ret.value = [by |-> pre._default_factory, id |-> calls]
        /\ last.key \in KeySet(C)
        /\ C.val[last.key] = ret.value
        /\ Iterate(C) = Append(Iterate(pre), last.key)
        /\ \A k \in KeySet(pre) : C.val[k] = pre.val[k]
        /\ C._default_factory = pre._default_factory

DefaultInsertionWitness ==
    /\ AbsentLookup
    /\ pre._default_factory # None
    /\ Iterate(pre) # <<>>
    /\ Iterate(C) = Append(Iterate(pre), last.key)
    /\ ret.value.by = pre._default_factory

\* C2: a lookup of an absent key in a container without a factory raises
\* KeyError and leaves keys, values and order as they were.
NoFactoryLookup ==
    (AbsentLookup /\ pre._default_factory = None) =>
        /\ ret.exc = "KeyError"
        /\ lastCalls = 0
        /\ C = pre

NoFactoryLookupWitness ==
    /\ AbsentLookup
    /\ pre._default_factory = None
    /\ Iterate(pre) # <<>>
    /\ ret.exc = "KeyError"

\* C3: iteration yields every key once, in the order of first insertion;
\* overwriting the value of a present key and reading a present key change
\* no key's position.
OrderPreservation ==
    /\ Iterate(C) = firstSeen
    /\ \A i, j \in 1..Len(Iterate(C)) : i # j => Iterate(C)[i] # Iterate(C)[j]
    /\ (last.op \in {"setitem", "getitem"} /\ last.key \in KeySet(pre)) =>
          Iterate(C) = Iterate(pre)

OrderPreservationWitness ==
    /\ last.op = "getitem"
    /\ last.key \in KeySet(pre)
    /\ Len(Iterate(C)) = MaxKey
    /\ Iterate(C)[1] = last.key
    /\ Iterate(C)[1] > Iterate(C)[2]
    /\ \E k \in KeySet(C) : C.val[k].by = "caller"
    /\ \E k \in KeySet(C) : C.val[k].by \in Factories

SameContents(a, b) ==
    /\ Iterate(a) = Iterate(b)
    /\ a.val = b.val

\* C4: C.copy() succeeds and returns a container with the keys, order, values
\* and default_factory of C.
ShallowCopy ==
    last.op = "copy" =>
        /\ ret.exc = None
        /\ D.exc = None
        /\ SameContents(D.d, C)
        /\ D.d._default_factory = C._default_factory

\* C5: a deep copy of C succeeds and returns a container with the keys and
\* order of C, clones of its values and its factory.
DeepCopyWorks ==
    last.op = "deepcopy" =>
        /\ ret.exc = None
        /\ D.exc = None
        /\ Iterate(D.d) = Iterate(C)
        /\ \A k \in KeySet(C) : D.d.val[k] = Clone(C.val[k])
        /\ D.d._default_factory = C._default_factory

\* C6: for every container, with or without a factory, rebuilding from the
\* value of __reduce__ succeeds and yields the key order and values of C.
SerializationRoundTrip ==
    last.op = "roundtrip" =>
        /\ ret.exc = None
        /\ D.exc = None
        /\ SameContents(D.d, C)

---------------------------------------------------------------------------
(* Properties of USBRipError (checked under SpecError) *)

GivenMap == IF err.given.isNone THEN <<>> ELSE err.given.map

\* C7: errors holds errcode and initial_error; a key the caller gave keeps the
\* caller's value, a missing errcode becomes 0, a missing initial_error
\* becomes "", and no other key is added.
ErrorDefaulting ==
    err.made =>
        /\ DOMAIN err.errors = DOMAIN GivenMap \cup {"errcode", "initial_error"}
        /\ \A k \in DOMAIN GivenMap : err.errors[k] = GivenMap[k]
        /\ "errcode" \notin DOMAIN GivenMap => err.errors["errcode"] = 0
        /\ "initial_error" \notin DOMAIN GivenMap => err.errors["initial_error"] = ""
        /\ err.given.isNone => err.errors = [errcode |-> 0, initial_error |-> ""]
        /\ (~err.given.isNone /\ err.given.map = [errcode |-> 5]) =>
              err.errors = [errcode |-> 5, initial_error |-> ""]

ErrorDefaultingWitness ==
    /\ err.made
    /\ ~err.given.isNone
    /\ err.given.map = [errcode |-> 5]
    /\ err.errors = [errcode |-> 5, initial_error |-> ""]

---------------------------------------------------------------------------
(* Properties of the messages (checked under SpecReporter) *)

MainLine(prefix) ==
    /\ out # <<>>
    /\ out[Len(out)].stream = "stdout"
    /\ out[Len(out)].text = prefix \o call.message

\* C8: in quiet mode print_info and print_warning write nothing to either
\* stream; print_critical writes its [CRITICAL] message to stdout in every
\* configuration.
QuietSuppression ==
    /\ (cfg.QUIET /\ call.fn \in {"print_info", "print_warning"}) => out = <<>>
    /\ call.fn = "print_critical" => MainLine("[CRITICAL] ")

QuietSuppressionWitness ==
    /\ cfg.QUIET
    /\ cfg.DEBUG
    /\ call.fn = "print_warning"
    /\ call.errcode # 0
    /\ call.initial_error # ""
    /\ out = <<>>

Reported ==
    \/ call.fn = "print_warning" /\ ~cfg.QUIET
    \/ call.fn = "print_critical"

Prefix == IF call.fn = "print_warning" THEN "[WARNING] " ELSE "[CRITICAL] "

NumDetails ==
    (IF call.errcode # 0 THEN 1 ELSE 0) + (IF call.initial_error # "" THEN 1 ELSE 0)

\* C9: in debug mode print_warning (not quiet) and print_critical write the
\* error-code line iff errcode is nonzero, then the initial-error line iff
\* initial_error is non-empty, then the main message; both detail lines go to
\* stderr and only the main message goes to stdout.
DebugDetailOrdering ==
    (cfg.DEBUG /\ Reported) =>
        /\ Len(out) = NumDetails + 1
        /\ MainLine(Prefix)
        /\ call.errcode # 0 => out[1].text = "ERRCODE: " \o ToString(call.errcode)
        /\ call.initial_error # "" => out[Len(out) - 1].text = call.initial_error
        /\ \A i \in 1..(Len(out) - 1) : out[i].stream = "stderr"

\* C10: without debug mode the output of print_warning and print_critical is
\* the same for every errcode and initial_error: the main message alone, or
\* nothing when print_warning is suppressed.
NoDetailLeak ==
    (~cfg.DEBUG /\ call.fn \in {"print_warning", "print_critical"}) =>
        /\ Len(out) <= 1
        /\ \A i \in 1..Len(out) : out[i].text = Prefix \o call.message
        /\ \A e \in Errcodes, i \in InitialErrors :
              out = IF call.fn = "print_warning"
                    THEN print_warning(call.message, e, i, cfg)
                    ELSE print_critical(call.message, e, i, cfg)

NoDetailLeakWitness ==
    /\ ~cfg.DEBUG
    /\ call.fn = "print_critical"
    /\ call.errcode # 0
    /\ call.initial_error # ""
    /\ Len(out) = 1

===========================================================================
